---- MODULE Spec2Model ----
(***************************************************************************)
(* Model of pipeline.py: a linear script that reads four CSV extracts,     *)
(* loads them into bronze tables of a persistent DuckDB database, builds   *)
(* the silver tables (profile union, service-log pivot, user               *)
(* deduplication), copies them to gold tables, and ends with an            *)
(* analytical query.  Every statement of the script is one action; an      *)
(* exception raised by a statement ends the run.                           *)
(*                                                                         *)
(* SQL values: a nullable column holds a sequence, <<>> for NULL and <<v>> *)
(* for the value v.  A timestamp is a number of ticks, SubSecond ticks to  *)
(* the second.  A table is a set of rows (records).                        *)
(***************************************************************************)
EXTENDS Integers, Sequences, FiniteSets, TLC

\* ------------------------------------------------------------------ bounds
MaxRows == 3
MaxTime == 2
SubSecond == 2
HashBits == 4

\* ------------------------------------------------------------ SQL values
NULL == <<>>
Some(v) == <<v>>
IsNull(x) == x = <<>>
Val(x) == x[1]

Pow2(n) == 2 ^ n

RECURSIVE Xor(_, _)
\* bitwise exclusive or of two naturals
Xor(a, b) ==
    IF a = 0 THEN b
    ELSE IF b = 0 THEN a
    ELSE (((a % 2) + (b % 2)) % 2) + 2 * Xor(a \div 2, b \div 2)

RECURSIVE Decimal(_)
\* CAST(<unsigned integer> AS TEXT): the decimal digits, most significant first
Decimal(n) == IF n < 10 THEN <<n>> ELSE Append(Decimal(n \div 10), n % 10)

\* --------------------------------------------------------------- HASH()
\* DuckDB hashes each argument and combines the hashes left to right; the
\* model keeps that structure at a width of HashBits bits instead of 64.
HashWidth == Pow2(HashBits)
Murmur == 19
Combine == 9

CharCode ==
    [c |-> 3, e |-> 5, i |-> 9, k |-> 11, l |-> 12, n |-> 14, o |-> 15,
     r |-> 18, t |-> 20, w |-> 23]

TagChars ==
    [worker |-> <<"w", "o", "r", "k", "e", "r">>,
     client |-> <<"c", "l", "i", "e", "n", "t">>]

RECURSIVE HashChars(_, _)
HashChars(cs, h) ==
    IF cs = <<>> THEN h
    ELSE HashChars(Tail(cs), Xor((h * Murmur) % HashWidth, CharCode[Head(cs)] % HashWidth))

HashStr(tag) == HashChars(TagChars[tag], 0)

HashInt(x) ==
    LET a == Xor(x % HashWidth, (x % HashWidth) \div Pow2(HashBits \div 2))
    IN  (a * Murmur) % HashWidth

CombineHash(a, b) == Xor((a * Combine) % HashWidth, b)

HashIdUntagged(id, tag) == Decimal(HashInt(id))

\* HASH(id, '<tag>') of a non-null id, cast to the TEXT column hash_id
HashId(id, tag) == Decimal(CombineHash(HashInt(id), HashStr(tag)))

\* ----------------------------------------------------------- timestamps
\* CAST(ts AS VARCHAR): 'YYYY-MM-DD HH:MM:SS' followed by the fraction
CastText(t) == <<t \div SubSecond, t % SubSecond>>
\* LEFT(text, 19): the first 19 characters, i.e. everything up to the seconds
Left19(txt) == <<txt[1]>>
\* strptime(text, '%Y-%m-%d %H:%M:%S')
Strptime(txt) == txt[1] * SubSecond

\* strptime(LEFT(col, 19), ...) of a nullable DATETIME column
ParseLeft19(col) == IF IsNull(col) THEN NULL ELSE Some(Strptime(Left19(CastText(Val(col)))))

\* a - b on nullable timestamps: an INTERVAL in ticks, NULL if either is NULL
Minus(a, b) == IF IsNull(a) \/ IsNull(b) THEN NULL ELSE Some(Val(a) - Val(b))


Max(S) == CHOOSE m \in S : \A x \in S : x <= m

\* ------------------------------------------------------------ hourly_rate
DigitVal == ("0" :> 0) @@ ("1" :> 1) @@ ("2" :> 2) @@ ("3" :> 3) @@ ("4" :> 4)
            @@ ("5" :> 5) @@ ("6" :> 6) @@ ("7" :> 7) @@ ("8" :> 8) @@ ("9" :> 9)

\* REPLACE(text, '$', '')
StripDollar(txt) == SelectSeq(txt, LAMBDA c : c # "$")

RECURSIVE CastNumber(_)
\* CAST(text AS DOUBLE) of a text of digits
CastNumber(txt) ==
    IF txt = <<>> THEN 0
    ELSE 10 * CastNumber(SubSeq(txt, 1, Len(txt) - 1)) + DigitVal[txt[Len(txt)]]

ParseRate(txt) == CastNumber(StripDollar(txt))

\* ------------------------------------------------------------- the script
Datasets == {"client_profiles", "support_provider_profiles", "service_logs", "users"}

BronzeTables ==
    {"client_profiles_bronze", "support_provider_profiles_bronze",
     "service_logs_bronze", "users_bronze"}
SilverTables == {"dim_profiles_silver", "fact_service_logs_silver", "dim_users_silver"}
GoldTables == {"dim_profiles_gold", "fact_service_logs_gold", "dim_users_gold"}
\* users_silver is named by the last INSERT of the script and created nowhere
TableNames == BronzeTables \cup SilverTables \cup GoldTables \cup {"users_silver"}

\* the statements of the script, in order
Steps ==
    <<"read_csv", "bronze", "profiles_silver", "service_logs_silver", "users_silver",
      "profiles_gold", "service_logs_gold", "users_gold", "analysis">>

StepNo(s) == CHOOSE i \in 1..Len(Steps) : Steps[i] = s

\* the tables each statement creates, replaces or fills
Writes ==
    [read_csv |-> {},
     bronze |-> BronzeTables,
     profiles_silver |-> {"dim_profiles_silver"},
     service_logs_silver |-> {"fact_service_logs_silver"},
     users_silver |-> {"dim_users_silver"},
     profiles_gold |-> {"dim_profiles_gold"},
     service_logs_gold |-> {"fact_service_logs_gold"},
     users_gold |-> {"dim_users_gold"},
     analysis |-> {}]

VARIABLES
    csv,        \* the rows of each input file (never changes)
    present,    \* the input files that exist and parse
    db,         \* mable.db: for each table name, whether it exists and its rows
    pc,         \* the statement to execute next, or "done" / "aborted"
    failed,     \* the statement that raised, "none" while no statement has
    second,     \* TRUE in the second run of the script against the same database
    start_db,   \* the database as the current run found it
    first_gold, \* the gold tables as the first run left them
    shown       \* what the analytical query displayed, "nothing" before it ran

vars == <<csv, present, db, pc, failed, second, start_db, first_gold, shown>>

NoTable == [exists |-> FALSE, rows |-> {}]
Table(rows) == [exists |-> TRUE, rows |-> rows]

Ended == pc \in {"done", "aborted"}

\* an exception is not caught anywhere: it ends the script at the raising statement
NextPcSwallow(step, ok) ==
    IF step = "analysis" THEN "done" ELSE Steps[StepNo(step) + 1]

NextPc(step, ok) ==
    IF ~ok THEN "aborted"
    ELSE IF step = "analysis" THEN "done"
    ELSE Steps[StepNo(step) + 1]

Goto(step, ok) ==
    /\ pc' = NextPc(step, ok)
    /\ failed' = IF ok THEN failed ELSE step
    /\ UNCHANGED <<csv, present, second, start_db, first_gold, shown>>

\* pd.read_csv of the four files
ReadCsv ==
    /\ pc = "read_csv"
    /\ db' = db
    /\ Goto("read_csv", present = Datasets)

\* DROP TABLE IF EXISTS <t>_bronze; CREATE TABLE <t>_bronze AS SELECT * FROM read_csv(...)
LoadBronze ==
    /\ pc = "bronze"
    /\ db' = [t \in TableNames |->
                IF t = "client_profiles_bronze" THEN Table(csv.client_profiles)
                ELSE IF t = "support_provider_profiles_bronze"
                    THEN Table(csv.support_provider_profiles)
                ELSE IF t = "service_logs_bronze" THEN Table(csv.service_logs)
                ELSE IF t = "users_bronze" THEN Table(csv.users)
                ELSE db[t]]
    /\ Goto("bronze", TRUE)

\* ------------------------------------------------------ dim_profiles_silver
WorkerSelect(rows) ==
    {[id |-> r.id, user_id |-> r.user_id, user_type |-> "worker",
      segment |-> r.worker_segment, created_at |-> r.created_at,
      updated_at |-> r.updated_at,
      hash_id |-> IF IsNull(r.id) THEN NULL ELSE HashId(Val(r.id), "worker")] : r \in rows}

ClientSelect(rows) ==
    {[id |-> r.id, user_id |-> r.user_id, user_type |-> "client",
      segment |-> r.customer_segment, created_at |-> r.created_at,
      updated_at |-> r.updated_at,
      hash_id |-> IF IsNull(r.id) THEN NULL ELSE HashId(Val(r.id), "client")] : r \in rows}

\* the rows of the UNION ALL
ProfileUnion(d) ==
    WorkerSelect(d["support_provider_profiles_bronze"].rows)
        \cup ClientSelect(d["client_profiles_bronze"].rows)

\* PRIMARY KEY: no two rows agree on the key column
UniqueKey(rows, key) == \A r1, r2 \in rows : r1[key] = r2[key] => r1 = r2

ProfileKey == "hash_id"

\* id INTEGER NOT NULL, hash_id TEXT NOT NULL PRIMARY KEY
ProfilesAccepted(rows) ==
    /\ \A r \in rows : ~IsNull(r.id)
    /\ UniqueKey(rows, ProfileKey)

ProfilesSilver ==
    /\ pc = "profiles_silver"
    /\ LET rows == ProfileUnion(db)
           ok == ProfilesAccepted(rows)
       IN  /\ db' = [db EXCEPT !["dim_profiles_silver"] = Table(IF ok THEN rows ELSE {})]
           /\ Goto("profiles_silver", ok)


\* ------------------------------------------------- row_number() ... = 1
\* QUALIFY row_number() OVER (PARTITION BY cols ORDER BY updated_at DESC) = 1:
\* the rows that may be numbered 1, those with the greatest updated_at of
\* their partition
\* the PARTITION BY columns of a row
Partition(r, cols) == [c \in cols |-> r[c]]

FirstRowsAsc(rows, cols) ==
    {r \in rows : \A q \in rows :
        Partition(q, cols) = Partition(r, cols) => q.updated_at >= r.updated_at}

FirstRows(rows, cols) ==
    {r \in rows : \A q \in rows :
        Partition(q, cols) = Partition(r, cols) => q.updated_at <= r.updated_at}

\* every result the QUALIFY can have: one row numbered 1 in each partition;
\* among rows that tie on updated_at the engine is free to number any of them 1
Qualify(rows, cols) ==
    LET first == FirstRows(rows, cols)
    IN  {S \in SUBSET first :
            \A r \in first :
                Cardinality({q \in S : Partition(q, cols) = Partition(r, cols)}) = 1}

\* ------------------------------------------------- fact_service_logs_silver
\* alphabetical order of the status values, the order of the PIVOT's columns
StatusRank == [approved |-> 1, pending |-> 2, rejected |-> 3, submitted |-> 4]

\* PARTITION BY id, status
LogPart == {"id", "status"}

LogFilterRejectedLogs(rows) ==
    {r \in rows :
        /\ ~IsNull(r.worker_id)
        /\ \A q \in rows : q.id = r.id => q.status # "rejected"}

\* WHERE worker_id IS NOT NULL AND status <> 'rejected'
LogFilter(rows) == {r \in rows : ~IsNull(r.worker_id) /\ r.status # "rejected"}

\* the SELECT list of service_logs_clean
LogSelect(rows) ==
    {[id |-> r.id, client_id |-> r.client_id, worker_id |-> r.worker_id,
      status |-> r.status, start_time |-> r.start_time, end_time |-> r.end_time,
      hourly_rate |-> ParseRate(r.hourly_rate), created_at |-> r.created_at,
      updated_at |-> r.updated_at] : r \in rows}

\* every value the CTE service_logs_clean can have
ServiceLogsClean(bronze) == Qualify(LogSelect(LogFilter(bronze)), LogPart)

\* GROUP BY id, client_id, worker_id, start_time, end_time, hourly_rate
GroupKey(r) ==
    [id |-> r.id, client_id |-> r.client_id, worker_id |-> r.worker_id,
     start_time |-> r.start_time, end_time |-> r.end_time,
     hourly_rate |-> r.hourly_rate]

\* ON status: one column <status>_time per distinct status, in alphabetical order
RECURSIVE SortStatuses(_)
SortStatuses(S) ==
    IF S = {} THEN <<>>
    ELSE LET lo == CHOOSE x \in S : \A y \in S : StatusRank[x] <= StatusRank[y]
         IN  <<lo>> \o SortStatuses(S \ {lo})

PivotColumns(clean) == SortStatuses({r.status : r \in clean})

\* USING max(updated_at): the cell of group g in the column of status st
PivotCell(clean, g, st) ==
    LET ts == {r.updated_at : r \in {q \in clean : GroupKey(q) = g /\ q.status = st}}
    IN  IF ts = {} THEN NULL ELSE Some(Max(ts))

\* INSERT INTO fact_service_logs_silver takes the columns by position: the six
\* grouping columns, then the first pivot column as approved_time and the
\* second as submitted_time
PivotInsert(clean) ==
    LET cols == PivotColumns(clean)
    IN  {[id |-> g.id, client_id |-> g.client_id, worker_id |-> g.worker_id,
          start_time |-> g.start_time, end_time |-> g.end_time,
          hourly_rate |-> g.hourly_rate,
          approved_time |-> PivotCell(clean, g, cols[1]),
          submitted_time |-> PivotCell(clean, g, cols[2])] : g \in {GroupKey(r) : r \in clean}}

IdKey == "id"

\* the table has eight columns, so the PIVOT must yield exactly two; id is the
\* PRIMARY KEY
LogsAccepted(clean) ==
    /\ Len(PivotColumns(clean)) = 2
    /\ UniqueKey(PivotInsert(clean), IdKey)

ServiceLogsSilver ==
    /\ pc = "service_logs_silver"
    /\ \E clean \in ServiceLogsClean(db["service_logs_bronze"].rows) :
          LET ok == LogsAccepted(clean)
          IN  /\ db' = [db EXCEPT !["fact_service_logs_silver"] =
                            Table(IF ok THEN PivotInsert(clean) ELSE {})]
              /\ Goto("service_logs_silver", ok)

\* ---------------------------------------------------------- dim_users_silver
\* PARTITION BY id
UserPart == {"id"}

\* every result of SELECT * FROM users_bronze QUALIFY row_number() ... = 1
UsersDedup(bronze) == Qualify(bronze, UserPart)

UsersSilver ==
    /\ pc = "users_silver"
    /\ \E rows \in UsersDedup(db["users_bronze"].rows) :
          LET ok == UniqueKey(rows, IdKey)
          IN  /\ db' = [db EXCEPT !["dim_users_silver"] = Table(IF ok THEN rows ELSE {})]
              /\ Goto("users_silver", ok)

\* ------------------------------------------------------------------- gold
ProfilesGold ==
    /\ pc = "profiles_gold"
    /\ LET rows == db["dim_profiles_silver"].rows
           ok == UniqueKey(rows, ProfileKey)
       IN  /\ db' = [db EXCEPT !["dim_profiles_gold"] = Table(IF ok THEN rows ELSE {})]
           /\ Goto("profiles_gold", ok)

\* strptime(LEFT(approved_time, 19), ...) - strptime(LEFT(submitted_time, 19), ...)
TimeToApprovalSwapped(r) == Minus(ParseLeft19(r.submitted_time), ParseLeft19(r.approved_time))

TimeToApproval(r) == Minus(ParseLeft19(r.approved_time), ParseLeft19(r.submitted_time))

LogsGoldSelect(silver) ==
    {[id |-> r.id, client_id |-> r.client_id, worker_id |-> r.worker_id,
      start_time |-> r.start_time, end_time |-> r.end_time,
      hourly_rate |-> r.hourly_rate, approved_time |-> r.approved_time,
      submitted_time |-> r.submitted_time,
      time_to_approval |-> TimeToApproval(r)] : r \in silver}

ServiceLogsGold ==
    /\ pc = "service_logs_gold"
    /\ LET rows == LogsGoldSelect(db["fact_service_logs_silver"].rows)
           ok == UniqueKey(rows, IdKey)
       IN  /\ db' = [db EXCEPT !["fact_service_logs_gold"] = Table(IF ok THEN rows ELSE {})]
           /\ Goto("service_logs_gold", ok)

\* CREATE OR REPLACE TABLE dim_users_gold; INSERT ... SELECT * FROM users_silver.
\* No statement creates a table users_silver (the silver table is
\* dim_users_silver), so the INSERT raises a catalog error.
UsersGold ==
    /\ pc = "users_gold"
    /\ LET ok == db["users_silver"].exists
       IN  /\ db' = [db EXCEPT !["dim_users_gold"] =
                         Table(IF ok THEN db["users_silver"].rows ELSE {})]
           /\ Goto("users_gold", ok)

\* ---------------------------------------------------------------- analysis
\* The last statement is the text  WITH service_logs AS ( SELECT ... )  and
\* nothing after the CTE: the parser rejects it, whatever the tables hold.
AnalysisQuery(d) == "parser error"

\* Not a disjunct of Next: pc never becomes "analysis", because UsersGold
\* raises in every run.
Analysis ==
    /\ pc = "analysis"
    /\ db' = db
    /\ shown' = AnalysisQuery(db)
    /\ pc' = NextPc("analysis", FALSE)
    /\ failed' = "analysis"
    /\ UNCHANGED <<csv, present, second, start_db, first_gold>>

\* ------------------------------------------------------------------ rerun
GoldOf(d) == [t \in GoldTables |-> d[t]]

\* the script is run again on the same files; mable.db is as the first run left it
Rerun ==
    /\ Ended
    /\ ~second
    /\ second' = TRUE
    /\ pc' = "read_csv"
    /\ failed' = "none"
    /\ start_db' = db
    /\ first_gold' = GoldOf(db)
    /\ UNCHANGED <<csv, present, db, shown>>

\* one run of the script
RunOnce ==
    \/ ReadCsv
    \/ LoadBronze
    \/ ProfilesSilver
    \/ ServiceLogsSilver
    \/ UsersSilver
    \/ ProfilesGold
    \/ ServiceLogsGold
    \/ UsersGold

\* a run, and a second run after it
Next ==
    \/ ReadCsv
    \/ LoadBronze
    \/ ProfilesSilver
    \/ ServiceLogsSilver
    \/ UsersSilver
    \/ ProfilesGold
    \/ ServiceLogsGold
    \/ UsersGold
    \/ Rerun


\* ----------------------------------------------------------------- inputs
RECURSIVE UpTo(_, _)
\* the subsets of S of at most k elements
UpTo(S, k) ==
    IF k = 0 THEN {{}}
    ELSE LET P == UpTo(S, k - 1) IN P \cup {T \cup {x} : T \in P, x \in S}

Times == 1..MaxTime
Ids == {1, 2}

UserRows ==
    [id : Ids, first_name : {"Ann", "Bob"}, last_name : {"Lee"}, user_type : {"client"},
     state : {"NSW"}, created_at : {1}, updated_at : Times]

ProfileIds == {NULL, Some(1), Some(2)}

ClientRows ==
    [id : ProfileIds, user_id : {1}, customer_segment : {"basic", "plus"},
     created_at : {1}, updated_at : {1}]

WorkerRows ==
    [id : ProfileIds, user_id : {2}, worker_segment : {"basic", "plus"},
     created_at : {1}, updated_at : {1}]

LogRow(i, c, w, st, t) ==
    [id |-> i, client_id |-> c, worker_id |-> w, status |-> st,
     start_time |-> 1, end_time |-> 2, hourly_rate |-> <<"$", "5", "0">>,
     created_at |-> 1, updated_at |-> t]

Statuses == {"approved", "pending", "rejected", "submitted"}

\* status events of logs 1 and 2, worker assigned
AssignedRows == {LogRow(i, 1, Some(2), st, t) : i \in Ids, st \in Statuses, t \in Times}
\* status events of log 1 recorded without a worker
UnassignedRows ==
    {LogRow(1, 1, NULL, st, t) : st \in {"approved", "submitted"}, t \in Times}
\* status events of log 1 recorded with another client
OtherClientRows ==
    {LogRow(1, 2, Some(2), st, t) : st \in {"approved", "submitted"}, t \in Times}

LogRows == AssignedRows \cup UnassignedRows \cup OtherClientRows

\* status events that may tie on (id, status, updated_at) and differ in the client
TieRows ==
    {LogRow(i, c, Some(2), st, t) :
        i \in Ids, c \in {1, 2}, st \in {"approved", "submitted"}, t \in Times}

\* a well-formed file of each kind
SampleUsers ==
    {[id |-> 1, first_name |-> "Ann", last_name |-> "Lee", user_type |-> "client",
      state |-> "NSW", created_at |-> 1, updated_at |-> 1],
     [id |-> 2, first_name |-> "Bob", last_name |-> "Lee", user_type |-> "client",
      state |-> "NSW", created_at |-> 1, updated_at |-> 1]}

SampleClients ==
    {[id |-> Some(1), user_id |-> 1, customer_segment |-> "basic",
      created_at |-> 1, updated_at |-> 1]}

SampleWorkers ==
    {[id |-> Some(1), user_id |-> 2, worker_segment |-> "plus",
      created_at |-> 1, updated_at |-> 1]}

SampleLogs ==
    {LogRow(1, 1, Some(2), "submitted", 1), LogRow(1, 1, Some(2), "approved", MaxTime)}

Start(files, found) ==
    /\ csv = files
    /\ present = found
    /\ db = [t \in TableNames |-> NoTable]
    /\ pc = "read_csv"
    /\ failed = "none"
    /\ second = FALSE
    /\ start_db = [t \in TableNames |-> NoTable]
    /\ first_gold = [t \in GoldTables |-> NoTable]
    /\ shown = "nothing"

Files(c, w, l, u) ==
    [client_profiles |-> c, support_provider_profiles |-> w, service_logs |-> l, users |-> u]

\* the users file varies, and a file may be missing
InitUsers ==
    \E u \in UpTo(UserRows, MaxRows) :
        \E found \in {Datasets} \cup {Datasets \ {f} : f \in Datasets} :
            Start(Files(SampleClients, SampleWorkers, SampleLogs, u), found)

\* the two profile files vary
InitProfiles ==
    \E c \in UpTo(ClientRows, MaxRows) : \E w \in UpTo(WorkerRows, MaxRows) :
        Start(Files(c, w, SampleLogs, SampleUsers), Datasets)

\* the service log file varies
InitLogs ==
    \E l \in UpTo(LogRows, MaxRows) :
        Start(Files(SampleClients, SampleWorkers, l, SampleUsers), Datasets)

\* the service log file varies over rows that can tie
InitTies ==
    \E l \in UpTo(TieRows, MaxRows) :
        Start(Files(SampleClients, SampleWorkers, l, SampleUsers), Datasets)

Init == InitUsers \/ InitProfiles \/ InitTies

SpecUsers == InitUsers /\ [][RunOnce]_vars
SpecProfiles == InitProfiles /\ [][RunOnce]_vars
SpecLogs == InitLogs /\ [][RunOnce]_vars
Spec == Init /\ [][Next]_vars

\* the statement `step` of the current run has been executed and did not raise
Completed(step) ==
    IF pc = "aborted" THEN StepNo(failed) > StepNo(step)
    ELSE pc = "done" \/ StepNo(pc) > StepNo(step)


Rows(t) == db[t].rows

\* ------------------------------------------------------------------ claims

\* C1: once the silver users statement has completed, dim_users_silver holds
\* exactly one row for each id of users_bronze and no other id, and that row is
\* a bronze row of the id whose updated_at is the greatest of the id's rows.
C1_UsersDeduplicated ==
    Completed("users_silver") =>
        LET bronze == Rows("users_bronze")
            silver == Rows("dim_users_silver")
        IN  /\ {r.id : r \in silver} = {r.id : r \in bronze}
            /\ \A r1, r2 \in silver : r1.id = r2.id => r1 = r2
            /\ \A r \in silver :
                  /\ r \in bronze
                  /\ \A q \in bronze : q.id = r.id => q.updated_at <= r.updated_at

\* an id with an older and a newer row (and a tie on the newer) was deduplicated
C1_Witness ==
    /\ Completed("users_silver")
    /\ \E a, b, c \in Rows("users_bronze") :
          /\ a.id = b.id /\ b.id = c.id
          /\ a.updated_at < b.updated_at
          /\ b.updated_at = c.updated_at /\ b # c
    /\ Rows("dim_users_silver") # {}

\* the latest status event of log i is a rejection
LatestRejected(bronze, i) ==
    \E r \in bronze :
        /\ r.id = i /\ r.status = "rejected"
        /\ \A q \in bronze : (q.id = i /\ q # r) => q.updated_at < r.updated_at

\* C2: no row of fact_service_logs_silver or fact_service_logs_gold has a null
\* worker_id, and no log whose latest status event is 'rejected' is in either.
C2_RejectedExcluded ==
    \A t \in {"fact_service_logs_silver", "fact_service_logs_gold"} :
        \A r \in Rows(t) :
            /\ ~IsNull(r.worker_id)
            /\ ~LatestRejected(Rows("service_logs_bronze"), r.id)

\* sub, app and rej are all the events of one log: submitted, approved, and
\* rejected earlier than approved, all three with the same assigned worker and
\* the same log columns
RejectedEarlier(bronze, sub, app, rej) ==
    /\ sub.status = "submitted" /\ app.status = "approved" /\ rej.status = "rejected"
    /\ app.id = sub.id /\ rej.id = sub.id
    /\ rej.updated_at < app.updated_at
    /\ ~IsNull(sub.worker_id)
    /\ \A r \in {app, rej} :
          /\ r.client_id = sub.client_id /\ r.worker_id = sub.worker_id
          /\ r.start_time = sub.start_time /\ r.end_time = sub.end_time
          /\ r.hourly_rate = sub.hourly_rate
    /\ {r \in bronze : r.id = sub.id} = {sub, app, rej}

KeptOnce(t, i, t1, t2) ==
    /\ Cardinality({r \in Rows(t) : r.id = i}) = 1
    /\ \A r \in Rows(t) :
          r.id = i => r.approved_time = Some(t2) /\ r.submitted_time = Some(t1)

\* the events of every log other than i carry one of the three documented
\* statuses, and the events of one log agree on the log's own columns
OthersWellFormed(bronze, i) ==
    \A r \in bronze :
        r.id # i =>
            /\ r.status \in {"submitted", "approved", "rejected"}
            /\ \A q \in bronze :
                  q.id = r.id =>
                      /\ q.client_id = r.client_id /\ q.worker_id = r.worker_id
                      /\ q.start_time = r.start_time /\ q.end_time = r.end_time
                      /\ q.hourly_rate = r.hourly_rate

\* the statement `step` of the current run has been executed, raising or not
Executed(step) ==
    IF pc = "aborted" THEN StepNo(failed) >= StepNo(step)
    ELSE pc = "done" \/ StepNo(pc) > StepNo(step)

\* C3: a log submitted at t1, approved at t2 and rejected at t3 < t2, in a
\* file whose other logs are well formed, is not dropped: once the silver
\* service log statement has been executed fact_service_logs_silver holds
\* exactly one row for it, with submitted_time = t1 and approved_time = t2, and
\* so does fact_service_logs_gold when the run has ended.
C3_RejectedEarlierKept ==
    LET bronze == Rows("service_logs_bronze")
    IN  \A sub, app, rej \in bronze :
            (RejectedEarlier(bronze, sub, app, rej) /\ OthersWellFormed(bronze, sub.id)) =>
                /\ Executed("service_logs_silver") =>
                      KeptOnce("fact_service_logs_silver", sub.id, sub.updated_at, app.updated_at)
                /\ Ended =>
                      KeptOnce("fact_service_logs_gold", sub.id, sub.updated_at, app.updated_at)

\* the run of such a file has ended with the log in fact_service_logs_gold
C3_Witness ==
    LET bronze == Rows("service_logs_bronze")
    IN  /\ Ended
        /\ \E sub, app, rej \in bronze :
              /\ RejectedEarlier(bronze, sub, app, rej)
              /\ OthersWellFormed(bronze, sub.id)
              /\ \E r \in Rows("fact_service_logs_gold") : r.id = sub.id

\* the greatest updated_at of the events of log i with status st and a worker
LatestOf(bronze, i, st) ==
    LET ts == {r.updated_at : r \in {q \in bronze :
                    q.id = i /\ q.status = st /\ ~IsNull(q.worker_id)}}
    IN  IF ts = {} THEN NULL ELSE Some(Max(ts))

\* C4: once the silver service log statement has completed, id is unique in
\* fact_service_logs_silver, and in each row approved_time is the latest
\* updated_at of the log's 'approved' events and submitted_time that of its
\* 'submitted' events (null without such an event), whatever statuses occur.
C4_PivotByStatus ==
    Completed("service_logs_silver") =>
        LET silver == Rows("fact_service_logs_silver")
            bronze == Rows("service_logs_bronze")
        IN  /\ \A r1, r2 \in silver : r1.id = r2.id => r1 = r2
            /\ \A r \in silver :
                  /\ r.approved_time = LatestOf(bronze, r.id, "approved")
                  /\ r.submitted_time = LatestOf(bronze, r.id, "submitted")


\* bronze profile row b is row r of the union, tagged `tag`
CopiedAs(b, seg, tag, r) ==
    /\ r.id = b.id /\ r.user_id = b.user_id /\ r.user_type = tag /\ r.segment = seg
    /\ r.created_at = b.created_at /\ r.updated_at = b.updated_at

\* C5: a client profile and a worker profile with the same local id get
\* different hash_id values, and once the profile union statement has
\* completed, hash_id is unique in dim_profiles_silver and the table holds one
\* row for each row of client_profiles_bronze and of
\* support_provider_profiles_bronze.
C5_ProfileKeysUnique ==
    LET clients == Rows("client_profiles_bronze")
        workers == Rows("support_provider_profiles_bronze")
        silver == Rows("dim_profiles_silver")
    IN  /\ \A c \in clients, w \in workers :
              (~IsNull(c.id) /\ c.id = w.id) =>
                  HashId(Val(c.id), "client") # HashId(Val(w.id), "worker")
        /\ Completed("profiles_silver") =>
              /\ \A r1, r2 \in silver : r1.hash_id = r2.hash_id => r1 = r2
              /\ Cardinality(silver) = Cardinality(clients) + Cardinality(workers)
              /\ \A c \in clients :
                    \E r \in silver : CopiedAs(c, c.customer_segment, "client", r)
              /\ \A w \in workers :
                    \E r \in silver : CopiedAs(w, w.worker_segment, "worker", r)
              /\ \A r1, r2 \in silver :
                    (r1.id = r2.id /\ r1.user_type # r2.user_type) => r1.hash_id # r2.hash_id

\* the union holds a client profile and a worker profile with the same local id
C5_Witness ==
    /\ Completed("profiles_silver")
    /\ \E r1, r2 \in Rows("dim_profiles_silver") :
          r1.id = r2.id /\ r1.user_type = "client" /\ r2.user_type = "worker"
    /\ Cardinality(Rows("dim_profiles_silver")) >= 3

\* a timestamp cut to its whole seconds
WholeSeconds(t) == t - (t % SubSecond)

\* C6 as stated: time_to_approval is approved_time minus submitted_time and is
\* not negative when both are present, and is null when either is missing.
C6_TimeToApprovalExact ==
    \A r \in Rows("fact_service_logs_gold") :
        IF IsNull(r.approved_time) \/ IsNull(r.submitted_time)
        THEN IsNull(r.time_to_approval)
        ELSE /\ r.time_to_approval = Some(Val(r.approved_time) - Val(r.submitted_time))
             /\ Val(r.time_to_approval) >= 0

\* C6 amended: time_to_approval is the difference of approved_time and
\* submitted_time each cut to whole seconds, negative exactly when the approval
\* second precedes the submission second, and null when either is missing.
C6_TimeToApprovalWholeSeconds ==
    \A r \in Rows("fact_service_logs_gold") :
        IF IsNull(r.approved_time) \/ IsNull(r.submitted_time)
        THEN IsNull(r.time_to_approval)
        ELSE /\ ~IsNull(r.time_to_approval)
             /\ Val(r.time_to_approval) =
                    WholeSeconds(Val(r.approved_time)) - WholeSeconds(Val(r.submitted_time))
             /\ (Val(r.time_to_approval) < 0) <=>
                    (WholeSeconds(Val(r.approved_time)) < WholeSeconds(Val(r.submitted_time)))

\* gold holds a log approved after submission and a log never approved
C6_Witness ==
    /\ \E r \in Rows("fact_service_logs_gold") :
          /\ ~IsNull(r.approved_time) /\ ~IsNull(r.submitted_time)
          /\ Val(r.time_to_approval) > 0
    /\ \E r \in Rows("fact_service_logs_gold") :
          IsNull(r.approved_time) /\ IsNull(r.time_to_approval)

\* C7: at the end of a run whose silver stage completed, every gold table has
\* the rows of its silver table (the service logs with time_to_approval added).
C7_GoldCopiesSilver ==
    (Ended /\ Completed("users_silver")) =>
        /\ Rows("dim_users_gold") = Rows("dim_users_silver")
        /\ Rows("dim_profiles_gold") = Rows("dim_profiles_silver")
        /\ Rows("fact_service_logs_gold") = LogsGoldSelect(Rows("fact_service_logs_silver"))

\* C8: when the second run on the same files has ended, the gold tables are as
\* the first run left them.
C8_RerunIdempotent == (Ended /\ second) => GoldOf(db) = first_gold

\* C9: when a statement has raised, the run has stopped there: no statement is
\* to be executed next, and every table written by a later statement is as the
\* run found it.
C9_AbortStopsRun ==
    failed # "none" =>
        /\ pc = "aborted"
        /\ \A n \in (StepNo(failed) + 1)..Len(Steps) :
              \A t \in Writes[Steps[n]] : db[t] = start_db[t]

\* a second run stopped at the service log pivot and left the first run's gold
\* tables alone
C9_Witness ==
    /\ pc = "aborted" /\ failed = "service_logs_silver" /\ second
    /\ db["fact_service_logs_gold"].rows # {}
    /\ db["fact_service_logs_silver"].rows = {}

\* C10: when a run that built fact_service_logs_gold has ended, the analytical
\* query has returned a set of rows, one for every row of the table.
C10_ViewReturned ==
    (Ended /\ Completed("service_logs_gold")) =>
        /\ shown \notin {"nothing", "parser error"}
        /\ Cardinality(shown) = Cardinality(Rows("fact_service_logs_gold"))

====
